---- MODULE Spec2Model ----
(***************************************************************************)
(* Model of the cursor_scaffold client: the zustand store of              *)
(* client/src/store.ts (sessions, per-session event logs, the persisted    *)
(* record) and the App component of client/src/App.tsx (session           *)
(* initialisation, the WebSocket effect and its callbacks, handleSend,     *)
(* handleNewChat), together with the collaborator of server/src/index.ts   *)
(* as far as the client observes it.                                       *)
(*                                                                         *)
(* JavaScript runs the handlers one at a time, so every handler is one     *)
(* action.  A store update re-renders the component and runs the effects   *)
(* whose dependencies changed before the next task is taken, so the        *)
(* effects are part of the action that changes their dependencies.         *)
(***************************************************************************)
EXTENDS Integers, Sequences, FiniteSets, TLC

\* ---------------------------------------------------------------- bounds
MaxChats   == 2   \* session identifiers the collaborator hands out
MaxSockets == 2   \* WebSocket objects constructed
MaxCreates == 2   \* createChat calls issued
MaxSends   == 2   \* prompts the user submits
MaxFrames  == 2   \* frames the collaborator puts on the channel
MaxTime    == 1   \* readings of Date.now()
MaxEvents  == 2   \* events appended by direct calls of the store
MaxTurn    == 5   \* events of the log of one turn
MaxOutcomes == 2  \* result events of a log
MaxChars   == 4   \* characters the agent writes to stdout
MaxLog     == 3   \* events of the log that is rendered

\* ------------------------------------------------------------- constants
NoChat    == 0         \* currentChatId === null
NoSocket  == 0         \* ws === null
Undefined == "undefined"
NoItem    == [item |-> FALSE]   \* localStorage.getItem(name) === null

NoCode    == 0 - 1     \* the process has not exited
NoProcess == [state |-> "none", printed |-> <<>>, pipe |-> <<>>, chunks |-> <<>>,
              wire |-> <<>>, code |-> NoCode]

ChatIds   == 1..MaxChats
SocketIds == 1..MaxSockets

VARIABLES
  currentChatId,  \* store.ts: AppState.currentChatId
  sessions,       \* store.ts: AppState.sessions (array of ChatSession)
  events,         \* store.ts: AppState.events (Map<string, ChatEvent[]>)
  storage,        \* localStorage['cursor-client-storage']
  ws,             \* App.tsx: useState ws
  connected,      \* App.tsx: useState connected
  wsRef,          \* App.tsx: useRef wsRef.current
  sockets,        \* the WebSocket objects constructed by the effect, in order
  pending,        \* createChat calls whose fetch has not settled
  now,            \* last reading of Date.now()
  nextChat,       \* identifiers handed out by "cursor agent create-chat"
  nFrames,        \* frames put on the channel so far
  sent,           \* history: the ws.send calls of handleSend
  appended,       \* history: per session, the events passed to addEvent
  received,       \* history: per session, the agent frames delivered to onmessage
  createIssued,   \* history: createChat calls, by origin
  discarded,      \* history: the frames that arrived on a socket after close()
  freshStart,     \* history: nothing was persisted when the app mounted
  process         \* server/src/index.ts: the agent process spawned for a send frame

vars == <<currentChatId, sessions, events, storage, ws, connected, wsRef,
          sockets, pending, now, nextChat, nFrames, sent, appended,
          received, createIssued, discarded, freshStart, process>>

storeVars == <<currentChatId, sessions, events, storage>>
reactVars == <<ws, connected, wsRef>>
envVars   == <<sockets, pending, nextChat, nFrames>>
histVars  == <<sent, appended, received, createIssued, discarded, freshStart>>

\* ------------------------------------------------ JavaScript Map<K, V>
\* A Map is its keys in insertion order plus the lookup table.
EmptyMap == [order |-> <<>>, tab |-> <<>>]

MapHas(m, k) == k \in DOMAIN m.tab

\* Map.prototype.get(k) || []
MapGetOrEmpty(m, k) == IF MapHas(m, k) THEN m.tab[k] ELSE <<>>

\* Map.prototype.set: an existing key keeps its position
MapSet(m, k, v) ==
  IF MapHas(m, k)
    THEN [order |-> m.order, tab |-> [m.tab EXCEPT ![k] = v]]
    ELSE [order |-> Append(m.order, k), tab |-> (k :> v) @@ m.tab]

\* Array.from(map.entries())
MapEntries(m) == [i \in 1..Len(m.order) |-> <<m.order[i], m.tab[m.order[i]]>>]

\* JavaScript property access: a missing property reads as undefined
Get(o, f) == IF f \in DOMAIN o THEN o[f] ELSE Undefined

\* a || b on strings / undefined
Or(a, b) == IF a = Undefined THEN b ELSE a

\* ------------------------------------------------------ store.ts: store
\* addSession without the filter
addSessionAppend(ss, session) == Append(ss, session)

\* addSession that keeps the new session only
addSessionOnly(ss, session) == <<session>>

\* addSession: [...state.sessions.filter(s => s.chatId !== session.chatId), session]
addSession(ss, session) ==
  LET Other(s) == s.chatId # session.chatId
  IN  Append(SelectSeq(ss, Other), session)

\* updateSession: state.sessions.map(s => s.chatId === chatId ? {...s, ...updates} : s)
updateSession(ss, chatId, updates) ==
  [i \in 1..Len(ss) |->
     IF ss[i].chatId = chatId THEN updates @@ ss[i] ELSE ss[i]]

\* getEvents: get().events.get(chatId) || []
getEvents(m, chatId) == MapGetOrEmpty(m, chatId)

\* addEvent that starts a new list instead of copying the existing one
addEventReplace(m, chatId, event) == MapSet(m, chatId, <<event>>)

\* addEvent that appends the event to the list of every session
addEventAllKeys(m, chatId, event) ==
  LET withKey == IF MapHas(m, chatId) THEN m ELSE MapSet(m, chatId, <<>>)
  IN  [order |-> withKey.order,
       tab   |-> [k \in DOMAIN withKey.tab |-> Append(withKey.tab[k], event)]]

\* addEvent with the new event put in front of the existing ones
addEventPrepend(m, chatId, event) ==
  MapSet(m, chatId, <<event>> \o MapGetOrEmpty(m, chatId))

\* addEvent: newEvents = [...existingEvents, event]; newEventsMap.set(chatId, newEvents)
addEvent(m, chatId, event) ==
  LET existingEvents == MapGetOrEmpty(m, chatId)
      newEvents      == Append(existingEvents, event)
  IN  MapSet(m, chatId, newEvents)

\* createChat, after a successful response: the ChatSession it builds
newSession(chatId, t) == [chatId |-> chatId, createdAt |-> t, lastMessageAt |-> t]

\* --------------------------------------------- store.ts: persist storage
\* JSON.stringify of an object drops the properties whose value is undefined;
\* the stored text is represented by the value JSON.parse reads back from it.
OptionalFields == {"subtype", "title"}

JSONObject(o) ==
  [f \in {g \in DOMAIN o : ~(g \in OptionalFields /\ o[g] = Undefined)} |-> o[f]]

JSONList(es) == [i \in 1..Len(es) |-> JSONObject(es[i])]

JSONPairs(ps) == [i \in 1..Len(ps) |-> <<ps[i][1], JSONList(ps[i][2])>>]

\* the value zustand's persist hands to setItem: { state, version }
persisted(chat, ss, m) ==
  [state |-> [currentChatId |-> chat, sessions |-> ss, events |-> m], version |-> 0]

\* setItem without the conversion of the Map: JSON.stringify writes a Map as
\* {}, and no pair is read back from it
setItemNoMap(value) ==
  [item  |-> TRUE,
   state |-> [currentChatId |-> value.state.currentChatId,
              sessions      |-> JSONList(value.state.sessions),
              events        |-> <<>>],
   version |-> value.version]

\* setItem: toStore.state.events = Array.from(events.entries()); JSON.stringify(toStore)
setItem(value) ==
  [item  |-> TRUE,
   state |-> [currentChatId |-> value.state.currentChatId,
              sessions      |-> JSONList(value.state.sessions),
              events        |-> JSONPairs(MapEntries(value.state.events))],
   version |-> value.version]

\* parsed.state.events.forEach(([key, value]) => eventsMap.set(key, value))
RECURSIVE mapFromPairs(_, _)
mapFromPairs(ps, m) ==
  IF ps = <<>> THEN m
  ELSE mapFromPairs(Tail(ps), MapSet(m, Head(ps)[1], Head(ps)[2]))

\* getItem with the pairs read in the reverse order
getItemReversed(str) ==
  IF ~str.item THEN NoItem
  ELSE LET n == Len(str.state.events)
           rev == [i \in 1..n |-> str.state.events[n + 1 - i]]
       IN [state |-> [currentChatId |-> str.state.currentChatId,
                      sessions      |-> str.state.sessions,
                      events        |-> mapFromPairs(rev, EmptyMap)],
           version |-> str.version]

\* getItem: if (!str) return null; JSON.parse; events array back to a Map
getItem(str) ==
  IF ~str.item THEN NoItem
  ELSE [state |-> [currentChatId |-> str.state.currentChatId,
                   sessions      |-> str.state.sessions,
                   events        |-> mapFromPairs(str.state.events, EmptyMap)],
        version |-> str.version]

\* ------------------------------------------------- wire frames and events
\* A frame is its text: whether JSON.parse accepts it, and the value parsed.
\* server/src/index.ts, connection handler: wsId is `${Date.now()}-${Math.random()}`,
\* a value that is no session identifier (the negative numbers stand for it)
connectedFrame(s) == [json |-> TRUE, data |-> [type |-> "connected", wsId |-> 0 - s, n |-> 0]]

NoFrame == [json |-> FALSE, data |-> [n |-> 0]]

\* server/src/index.ts, stdout handler: one frame per line the agent prints;
\* a line that is not JSON is sent wrapped as {type: 'raw', data: line}
agentFrame(ty, turn, n) ==
  CASE ty = "raw"     -> [json |-> TRUE, data |-> [type |-> "raw", data |-> n,
                                                   turn |-> turn, n |-> n]]
    [] ty = "untyped" -> [json |-> TRUE, data |-> [turn |-> turn, n |-> n]]
    [] OTHER          -> [json |-> TRUE, data |-> [type |-> ty, turn |-> turn, n |-> n]]

\* a text frame that JSON.parse rejects
textFrame(n) == [json |-> FALSE, data |-> [n |-> n]]

\* server/src/index.ts, process.on('close')
resultFrame(code, turn, n) ==
  [json |-> TRUE,
   data |-> [type |-> "result", subtype |-> IF code = 0 THEN "success" ELSE "error",
             exitCode |-> code, turn |-> turn, n |-> n]]

\* the lines of the agent that onmessage tells apart: an echo of the prompt,
\* and any other line (a line that is not JSON among them, sent wrapped)
AgentTypes == {"user", "raw"}
ExitCodes  == {0, 1}

\* Date.now() never goes back
Clock == now..(IF now < MaxTime THEN now + 1 ELSE now)

\* Math.random(): a value it has not returned before, numbered by the events
\* built so far
RECURSIVE Total(_, _)
Total(f, k) == IF k < 0 THEN 0 ELSE Len(f[k]) + Total(f, k - 1)

Random == Total(appended, MaxChats) + 1

\* onmessage: the ChatEvent built from a parsed frame
chatEvent(chat, t, r, text) ==
  [id        |-> <<t, r>>,
   chatId    |-> chat,
   timestamp |-> t,
   type      |-> Or(Get(text.data, "type"), "unknown"),
   subtype   |-> Get(text.data, "subtype"),
   payload   |-> text.data,
   raw       |-> text]

\* handleSend: the locally authored user event
userEvent(chat, t, r, prompt) ==
  [id        |-> <<t, r>>,
   chatId    |-> chat,
   timestamp |-> t,
   type      |-> "user",
   payload   |-> [prompt |-> prompt],
   raw       |-> [json |-> TRUE, data |-> [type |-> "user", prompt |-> prompt]]]

\* onmessage with the echoed user events stored like any other frame
storesWithEcho(chat, text) ==
  /\ text.json
  /\ Get(text.data, "type") # "connected"
  /\ chat # NoChat

\* onmessage: JSON.parse succeeds, not the connected frame, a session is bound,
\* not a user event
stores(chat, text) ==
  /\ text.json
  /\ Get(text.data, "type") # "connected"
  /\ chat # NoChat
  /\ Get(text.data, "type") # "user"

\* ------------------------------------------------------ App.tsx: effects
newSocket(chat) == [chat |-> chat, state |-> "CONNECTING", inbox |-> <<>>, turns |-> {}]

\* the effect's cleanup without the call of close()
cleanupNoClose(socks) == socks

\* cleanup of the WebSocket effect: newWs.close() on the socket of the last run
cleanup(socks) ==
  [socks EXCEPT ![Len(socks)].state =
     IF @ \in {"CONNECTING", "OPEN"} THEN "CLOSING" ELSE @]

\* the WebSocket effect, run again because currentChatId changed
wsEffect(socks, chat) == Append(cleanup(socks), newSocket(chat))

\* the effect on [connected, currentChatId] without the test of currentChatId
connectedEffectAlways(c0, id0, c1, id1) ==
  /\ (c0 # c1 \/ id0 # id1)
  /\ c1

\* the effect on [connected, currentChatId]: does it call createChat()
connectedEffect(c0, id0, c1, id1) ==
  /\ (c0 # c1 \/ id0 # id1)
  /\ c1 /\ id1 = NoChat

\* The pending createChat calls: how many there are of each origin, and
\* (history) whether a teardown has happened since the call.
Origins  == {"init", "connected", "new"}
Requests == [origin : Origins, torn : BOOLEAN]
NoRequests == [q \in Requests |-> 0]

request(origin) == [origin |-> origin, torn |-> FALSE]

Pending(pend) == {q \in Requests : pend[q] > 0}

Issue(pend, origin) == [pend EXCEPT ![request(origin)] = @ + 1]

Settle(pend, q) == [pend EXCEPT ![q] = @ - 1]

\* history: the pending createChat calls have seen a teardown
Tear(pend) ==
  [q \in Requests |->
     IF q.torn THEN pend[q] + pend[[q EXCEPT !.torn = FALSE]] ELSE 0]

Calls(issued) == issued["init"] + issued["connected"] + issued["new"]

\* zustand persist: every set() writes the record
Persist == storage' = setItem(persisted(currentChatId', sessions', events'))

\* Bind with the WebSocket effect run on every call of setCurrentChatId
BindAlways(chat) ==
  /\ currentChatId' = chat
  /\ Len(sockets) < MaxSockets
  /\ sockets' = wsEffect(sockets, chat)

\* setCurrentChatId(chat) and the WebSocket effect it triggers
Bind(chat) ==
  /\ currentChatId' = chat
  /\ IF chat # currentChatId
       THEN /\ Len(sockets) < MaxSockets
            /\ sockets' = wsEffect(sockets, chat)
       ELSE sockets' = sockets

SessionIds == {sessions[i].chatId : i \in 1..Len(sessions)}

\* ------------------------------------------------------ App.tsx: handlers
\* newWs.onopen; the server's connection handler sends the connected frame;
\* the effect on [connected, currentChatId] may call createChat()
onopen(s) ==
  /\ sockets[s].state = "CONNECTING"
  /\ sockets' = [sockets EXCEPT ![s].state = "OPEN",
                                ![s].inbox = Append(@, connectedFrame(s))]
  /\ connected' = TRUE
  /\ ws' = s
  /\ wsRef' = s
  /\ IF connectedEffect(connected, currentChatId, TRUE, currentChatId)
       THEN /\ Calls(createIssued) < MaxCreates
            /\ pending' = Issue(pending, "connected")
            /\ createIssued' = [createIssued EXCEPT !["connected"] = @ + 1]
       ELSE UNCHANGED <<pending, createIssued>>
  /\ UNCHANGED <<storeVars, now, nextChat, nFrames, sent, appended, received,
                 discarded, freshStart>>
  /\ UNCHANGED process

\* newWs.onmessage of the socket the effect created while sockets[s].chat was
\* the current session
onmessage(s) ==
  /\ sockets[s].state = "OPEN"
  /\ sockets[s].inbox # <<>>
  /\ LET text == Head(sockets[s].inbox)
         chat == sockets[s].chat
     IN  /\ sockets' = [sockets EXCEPT ![s].inbox = Tail(@)]
         /\ received' = IF text.data.n # 0
                          THEN [received EXCEPT ![chat] = Append(@, text)]
                          ELSE received
         /\ IF stores(chat, text)
              THEN \E t \in Clock :
                     /\ now' = t
                     /\ events' = addEvent(events, chat, chatEvent(chat, t, Random, text))
                     /\ appended' = [appended EXCEPT
                                       ![chat] = Append(@, chatEvent(chat, t, Random, text))]
                     /\ UNCHANGED <<currentChatId, sessions>>
                     /\ Persist
              ELSE UNCHANGED <<storeVars, now, appended>>
  /\ UNCHANGED <<reactVars, pending, nextChat, nFrames, sent, createIssued,
                 discarded, freshStart>>
  /\ UNCHANGED process

\* a frame that arrives after close() was called: the socket is no longer
\* OPEN and the browser dispatches no message event
discard(s) ==
  /\ sockets[s].state = "CLOSING"
  /\ sockets[s].inbox # <<>>
  /\ sockets' = [sockets EXCEPT ![s].inbox = Tail(@)]
  /\ discarded' = discarded \cup {[s |-> s, text |-> Head(sockets[s].inbox)]}
  /\ UNCHANGED <<storeVars, reactVars, pending, now, nextChat, nFrames, sent,
                 appended, received, createIssued, freshStart>>
  /\ UNCHANGED process

\* onerror / onclose that construct a new WebSocket for the current session
closedReconnects(s) ==
  /\ Len(sockets) < MaxSockets
  /\ sockets' = Append([sockets EXCEPT ![s].state = "CLOSED", ![s].inbox = <<>>,
                                        ![s].turns = {}],
                        newSocket(currentChatId))
  /\ connected' = FALSE
  /\ ws' = NoSocket
  /\ wsRef' = NoSocket
  /\ pending' = Tear(pending)
  /\ UNCHANGED <<storeVars, now, nextChat, nFrames, histVars>>
  /\ UNCHANGED process

\* what onerror and onclose leave behind, whichever socket they belong to
closed(s) ==
  /\ sockets' = [sockets EXCEPT ![s].state = "CLOSED", ![s].inbox = <<>>,
                                ![s].turns = {}]
  /\ connected' = FALSE
  /\ ws' = NoSocket
  /\ wsRef' = NoSocket
  /\ pending' = Tear(pending)
  /\ UNCHANGED <<storeVars, now, nextChat, nFrames, histVars>>
  /\ UNCHANGED process

\* newWs.onclose after the closing handshake that close() started
onclose(s) ==
  /\ sockets[s].state = "CLOSING"
  /\ closed(s)

\* newWs.onerror followed by newWs.onclose: the connection failed or was lost
onerror(s) ==
  /\ sockets[s].state \in {"CONNECTING", "OPEN"}
  /\ closed(s)

\* handleSend without the test of currentChatId
sendGuardNoChat(input) ==
  /\ input # 0
  /\ ws # NoSocket
  /\ connected

\* handleSend: if (!input || !currentChatId || !ws || !connected) return
sendGuard(input) ==
  /\ input # 0
  /\ currentChatId # NoChat
  /\ ws # NoSocket
  /\ connected

\* server/src/index.ts, ws.on('message'): data.type === 'send' && data.chatId && data.prompt
serverAccepts(frame) == frame.chatId # NoChat /\ frame.prompt # 0

\* handleSend that transmits the frame and appends nothing
handleSendNoAppend(input) ==
  /\ IF sendGuard(input)
       THEN LET frame == [chatId |-> currentChatId, prompt |-> input, s |-> ws,
                          connected |-> connected, state |-> sockets[ws].state]
            IN  /\ sent' = Append(sent, frame)
                /\ sockets' = IF sockets[ws].state = "OPEN" /\ serverAccepts(frame)
                                THEN [sockets EXCEPT ![ws].turns = @ \cup {input}]
                                ELSE sockets
                /\ UNCHANGED <<storeVars, now, appended>>
       ELSE UNCHANGED <<storeVars, now, sent, appended, sockets>>
  /\ UNCHANGED <<reactVars, pending, nextChat, nFrames, received, createIssued,
                 discarded, freshStart>>
  /\ UNCHANGED process

\* handleSend: input 0 is the empty string, any other input is the prompt
\* text; the frame reaches the server only through a socket that is OPEN
handleSend(input) ==
  /\ IF sendGuard(input)
       THEN \E t \in Clock :
              LET frame == [chatId |-> currentChatId, prompt |-> input, s |-> ws,
                            connected |-> connected, state |-> sockets[ws].state]
              IN  /\ now' = t
                  /\ events' = addEvent(events, currentChatId,
                                        userEvent(currentChatId, t, Random, input))
                  /\ appended' = [appended EXCEPT ![currentChatId] =
                                    Append(@, userEvent(currentChatId, t, Random, input))]
                  /\ UNCHANGED <<currentChatId, sessions>>
                  /\ Persist
                  /\ sent' = Append(sent, frame)
                  /\ sockets' = IF sockets[ws].state = "OPEN" /\ serverAccepts(frame)
                                  THEN [sockets EXCEPT ![ws].turns = @ \cup {input}]
                                  ELSE sockets
       ELSE UNCHANGED <<storeVars, now, sent, appended, sockets>>
  /\ UNCHANGED <<reactVars, pending, nextChat, nFrames, received, createIssued,
                 discarded, freshStart>>
  /\ UNCHANGED process

\* handleNewChat up to the await: createChat() is called
handleNewChat ==
  /\ Calls(createIssued) < MaxCreates
  /\ pending' = Issue(Tear(pending), "new")
  /\ createIssued' = [createIssued EXCEPT !["new"] = @ + 1]
  /\ UNCHANGED <<storeVars, reactVars, sockets, now, nextChat, nFrames, sent,
                 appended, received, discarded, freshStart>>
  /\ UNCHANGED process

\* createChat after the await, response ok: addSession, setCurrentChatId, and
\* the caller's setCurrentChatId(chatId) with the same value
createChatOk(q) ==
  /\ nextChat < MaxChats
  /\ \E t \in Clock :
       /\ now' = t
       /\ sessions' = addSession(sessions, newSession(nextChat + 1, t))
  /\ Bind(nextChat + 1)
  /\ nextChat' = nextChat + 1
  /\ pending' = Tear(Settle(pending, q))
  /\ events' = events
  /\ Persist
  /\ UNCHANGED <<reactVars, nFrames, histVars>>
  /\ UNCHANGED process

\* createChatFail that empties the session list before it throws
createChatFailDrops(q) ==
  /\ pending' = Settle(pending, q)
  /\ sessions' = <<>>
  /\ UNCHANGED <<currentChatId, events>>
  /\ Persist
  /\ UNCHANGED <<reactVars, sockets, now, nextChat, nFrames, histVars>>
  /\ UNCHANGED process

\* createChat after the await, fetch rejected or !response.ok: throws
createChatFail(q) ==
  /\ pending' = Settle(pending, q)
  /\ UNCHANGED <<storeVars, reactVars, sockets, now, nextChat, nFrames, histVars>>
  /\ UNCHANGED process

\* switchChat(chatId): get().setCurrentChatId(chatId)
switchChat(chatId) ==
  /\ Bind(chatId)
  /\ pending' = IF chatId # currentChatId THEN Tear(pending) ELSE pending
  /\ UNCHANGED <<sessions, events>>
  /\ Persist
  /\ UNCHANGED <<reactVars, now, nextChat, nFrames, histVars>>
  /\ UNCHANGED process

\* server: the agent process of a turn prints a line
agentEmit(s, turn, ty) ==
  /\ sockets[s].state \in {"OPEN", "CLOSING"}
  /\ turn \in sockets[s].turns
  /\ nFrames < MaxFrames
  /\ nFrames' = nFrames + 1
  /\ sockets' = [sockets EXCEPT ![s].inbox = Append(@, agentFrame(ty, turn, nFrames + 1))]
  /\ UNCHANGED <<storeVars, reactVars, pending, now, nextChat, histVars>>
  /\ UNCHANGED process

\* server: the agent process of a turn exits
agentExit(s, turn, code) ==
  /\ sockets[s].state \in {"OPEN", "CLOSING"}
  /\ turn \in sockets[s].turns
  /\ nFrames < MaxFrames
  /\ nFrames' = nFrames + 1
  /\ sockets' = [sockets EXCEPT ![s].inbox = Append(@, resultFrame(code, turn, nFrames + 1)),
                                ![s].turns = @ \ {turn}]
  /\ UNCHANGED <<storeVars, reactVars, pending, now, nextChat, histVars>>
  /\ UNCHANGED process

\* the channel delivers a text frame that is not JSON: event.data is whatever
\* the peer at the WebSocket URL sent
garbled(s) ==
  /\ sockets[s].state \in {"OPEN", "CLOSING"}
  /\ nFrames < MaxFrames
  /\ nFrames' = nFrames + 1
  /\ sockets' = [sockets EXCEPT ![s].inbox = Append(@, textFrame(nFrames + 1))]
  /\ UNCHANGED <<storeVars, reactVars, pending, now, nextChat, histVars>>
  /\ UNCHANGED process

\* ---------------------------------------------------------- specification
\* After mount: the store is hydrated with the sessions persisted by earlier
\* visits (none, or the first of them current), the init effect has called
\* createChat() if no session is current, and the WebSocket effect has
\* constructed the first socket.
Init ==
  \E known \in 0..MaxChats :
    /\ currentChatId = IF known > 0 THEN 1 ELSE NoChat
    /\ sessions = [i \in 1..known |-> newSession(i, 0)]
    /\ events = EmptyMap
    /\ storage = setItem(persisted(currentChatId, sessions, events))
    /\ ws = NoSocket
    /\ connected = FALSE
    /\ wsRef = NoSocket
    /\ sockets = <<newSocket(currentChatId)>>
    /\ pending = IF known > 0 THEN NoRequests ELSE Issue(NoRequests, "init")
    /\ now = 0
    /\ nextChat = known
    /\ nFrames = 0
    /\ sent = <<>>
    /\ appended = [k \in 0..MaxChats |-> <<>>]
    /\ received = [k \in 0..MaxChats |-> <<>>]
    /\ createIssued = [o \in Origins |-> IF o = "init" /\ known = 0 THEN 1 ELSE 0]
    /\ discarded = {}
    /\ freshStart = (known = 0)
    /\ process = NoProcess

Next ==
  \/ \E s \in 1..Len(sockets) : onopen(s)
  \/ \E s \in 1..Len(sockets) : onmessage(s)
  \/ \E s \in 1..Len(sockets) : discard(s)
  \/ \E s \in 1..Len(sockets) : onclose(s)
  \/ \E s \in 1..Len(sockets) : onerror(s)
  \/ \E input \in {0, Len(sent) + 1} : Len(sent) < MaxSends /\ handleSend(input)
  \/ handleNewChat
  \/ \E q \in Pending(pending) : createChatOk(q)
  \/ \E q \in Pending(pending) : createChatFail(q)
  \/ \E chatId \in SessionIds : switchChat(chatId)
  \/ \E s \in 1..Len(sockets) : \E turn \in sockets[s].turns, ty \in AgentTypes :
       agentEmit(s, turn, ty)
  \/ \E s \in 1..Len(sockets) : \E turn \in sockets[s].turns, code \in ExitCodes :
       agentExit(s, turn, code)
  \/ \E s \in 1..Len(sockets) : garbled(s)

Spec == Init /\ [][Next]_vars

\* ------------------------------------------- the store called on its own
\* The store's operations called in any order with any arguments, and the
\* page reloaded; StoreSpec leaves the component and the channel out.
Appended == Total(appended, MaxChats)

\* the events the component builds: a user event, or the event of a frame
EventInputs(chatId, t) ==
    {userEvent(chatId, t, Random, Appended + 1)}
  \cup
    {chatEvent(chatId, t, Random, agentFrame(ty, 0, Appended + 1)) :
       ty \in {"assistant", "untyped"}}
  \cup
    {chatEvent(chatId, t, Random, resultFrame(0, 0, Appended + 1))}

storeOnly == <<reactVars, envVars, sent, received, createIssued, discarded, freshStart>>

callSetCurrentChatId(chatId) ==
  /\ currentChatId' = chatId
  /\ UNCHANGED <<sessions, events>>
  /\ Persist
  /\ UNCHANGED <<storeOnly, now, appended>>
  /\ UNCHANGED process

callSwitchChat(chatId) ==
  /\ currentChatId' = chatId
  /\ UNCHANGED <<sessions, events>>
  /\ Persist
  /\ UNCHANGED <<storeOnly, now, appended>>
  /\ UNCHANGED process

callAddSession(chatId) ==
  /\ \E t \in Clock :
       /\ now' = t
       /\ sessions' = addSession(sessions, newSession(chatId, t))
  /\ UNCHANGED <<currentChatId, events>>
  /\ Persist
  /\ UNCHANGED <<storeOnly, appended>>
  /\ UNCHANGED process

callUpdateSession(chatId) ==
  /\ \E t \in Clock :
       /\ now' = t
       /\ sessions' = updateSession(sessions, chatId, [lastMessageAt |-> t])
  /\ UNCHANGED <<currentChatId, events>>
  /\ Persist
  /\ UNCHANGED <<storeOnly, appended>>
  /\ UNCHANGED process

callAddEvent(chatId) ==
  /\ Appended < MaxEvents
  /\ \E t \in Clock : \E event \in EventInputs(chatId, t) :
       /\ now' = t
       /\ events' = addEvent(events, chatId, event)
       /\ appended' = [appended EXCEPT ![chatId] = Append(@, event)]
  /\ UNCHANGED <<currentChatId, sessions>>
  /\ Persist
  /\ UNCHANGED storeOnly
  /\ UNCHANGED process

\* createChat with a successful response
callCreateChatOk ==
  /\ nextChat < MaxChats
  /\ \E t \in Clock :
       /\ now' = t
       /\ sessions' = addSession(sessions, newSession(nextChat + 1, t))
  /\ currentChatId' = nextChat + 1
  /\ nextChat' = nextChat + 1
  /\ events' = events
  /\ Persist
  /\ UNCHANGED <<reactVars, sockets, pending, nFrames, histVars>>
  /\ UNCHANGED process

\* createChat with a failed request: it throws before any set()
callCreateChatFail ==
  /\ UNCHANGED vars

\* the page is reloaded: persist hydrates the store from getItem
reload ==
  /\ storage.item
  /\ LET parsed == getItem(storage)
     IN  /\ currentChatId' = parsed.state.currentChatId
         /\ sessions' = parsed.state.sessions
         /\ events' = parsed.state.events
  /\ Persist
  /\ UNCHANGED <<storeOnly, now, appended>>
  /\ UNCHANGED process

StoreInit ==
  /\ currentChatId = NoChat
  /\ sessions = <<>>
  /\ events = EmptyMap
  /\ storage = NoItem
  /\ ws = NoSocket
  /\ connected = FALSE
  /\ wsRef = NoSocket
  /\ sockets = <<>>
  /\ pending = NoRequests
  /\ now = 0
  /\ nextChat = 0
  /\ nFrames = 0
  /\ sent = <<>>
  /\ appended = [k \in 0..MaxChats |-> <<>>]
  /\ received = [k \in 0..MaxChats |-> <<>>]
  /\ createIssued = [o \in Origins |-> 0]
  /\ discarded = {}
  /\ freshStart = TRUE
  /\ process = NoProcess

StoreNext ==
  \/ \E chatId \in {NoChat} \cup ChatIds : callSetCurrentChatId(chatId)
  \/ \E chatId \in ChatIds : callSwitchChat(chatId)
  \/ \E chatId \in ChatIds : callAddSession(chatId)
  \/ \E chatId \in ChatIds : callUpdateSession(chatId)
  \/ \E chatId \in ChatIds : callAddEvent(chatId)
  \/ callCreateChatOk
  \/ callCreateChatFail
  \/ reload

StoreSpec == StoreInit /\ [][StoreNext]_vars

\* ------------------------------------- App.tsx: event processing in render
\* if (x): undefined and the empty string are falsy
Truthy(x) == x # Undefined /\ x # ""

\* event.payload?.toolCall?.id
toolCallId(event) ==
  IF "toolCall" \in DOMAIN event.payload
    THEN Get(event.payload.toolCall, "id") ELSE Undefined

\* event.payload?.toolCall?.shellToolCall?.args?.command
toolCallCommand(event) ==
  IF "toolCall" \in DOMAIN event.payload
       /\ "shellToolCall" \in DOMAIN event.payload.toolCall
       /\ "args" \in DOMAIN event.payload.toolCall.shellToolCall
    THEN Get(event.payload.toolCall.shellToolCall.args, "command") ELSE Undefined

\* String(x) of a string, and the template string `tool-${timestamp}-${id}`,
\* which is equal to no identifier or command of the inputs
textKey(x) == [text |-> x]

\* the fallback built from the timestamp alone
fallbackKeyOfTime(event) == [tool |-> <<event.timestamp>>]

fallbackKey(event) == [tool |-> <<event.timestamp, event.id>>]

\* the tool identifier of a tool_call event
toolId(event) ==
  IF Truthy(toolCallId(event)) THEN textKey(toolCallId(event))
  ELSE IF Truthy(Get(event.payload, "id")) THEN textKey(event.payload.id)
  ELSE IF Truthy(toolCallCommand(event)) THEN textKey(toolCallCommand(event))
  ELSE fallbackKey(event)

\* a record of toolCallMap: {} has neither started nor completed
NoTool == [started |-> [set |-> FALSE], completed |-> [set |-> FALSE]]

Some(event) == [set |-> TRUE, event |-> event]

\* the events the loop returns from before it looks at tool calls
skipped(event) ==
  \/ event.type = "thinking" /\ Get(event, "subtype") = "delta"
  \/ event.type = "system" /\ Get(event, "subtype") = "init"

\* the loop body with toolCallMap.set(toolId, {}) done for every event
trackReset(map, event) ==
  IF skipped(event) \/ event.type # "tool_call" THEN map
  ELSE LET tool == NoTool
       IN  MapSet(map, toolId(event),
                  IF Get(event, "subtype") = "started"
                    THEN [tool EXCEPT !.started = Some(event)]
                  ELSE IF Get(event, "subtype") = "completed"
                    THEN [tool EXCEPT !.completed = Some(event)]
                  ELSE tool)

\* the loop body with a started event clearing completed
trackReopen(map, event) ==
  IF skipped(event) \/ event.type # "tool_call" THEN map
  ELSE LET withKey == IF MapHas(map, toolId(event)) THEN map
                      ELSE MapSet(map, toolId(event), NoTool)
           tool == withKey.tab[toolId(event)]
       IN  MapSet(withKey, toolId(event),
                  IF Get(event, "subtype") = "started"
                    THEN [started |-> Some(event), completed |-> NoTool.completed]
                  ELSE IF Get(event, "subtype") = "completed"
                    THEN [tool EXCEPT !.completed = Some(event)]
                  ELSE tool)

\* the loop body of currentEvents.forEach, as far as it writes toolCallMap
track(map, event) ==
  IF skipped(event) \/ event.type # "tool_call" THEN map
  ELSE LET withKey == IF MapHas(map, toolId(event)) THEN map
                      ELSE MapSet(map, toolId(event), NoTool)
           tool == withKey.tab[toolId(event)]
       IN  MapSet(withKey, toolId(event),
                  IF Get(event, "subtype") = "started"
                    THEN [tool EXCEPT !.started = Some(event)]
                  ELSE IF Get(event, "subtype") = "completed"
                    THEN [tool EXCEPT !.completed = Some(event)]
                  ELSE tool)

\* toolCallMap after currentEvents.forEach
RECURSIVE toolCallMap(_, _)
toolCallMap(log, map) ==
  IF log = <<>> THEN map ELSE toolCallMap(Tail(log), track(map, Head(log)))

\* toolCalls without the filter on started
toolCallsUnfiltered(log) ==
  LET map == toolCallMap(log, EmptyMap)
  IN  [i \in 1..Len(map.order) |->
         [id        |-> map.order[i],
          started   |-> map.tab[map.order[i]].started,
          completed |-> map.tab[map.order[i]].completed]]

\* toolCalls over the events that follow the last user event only
toolCallsOfTurn(log) ==
  LET users == {i \in 1..Len(log) : log[i].type = "user"}
      from  == IF users = {} THEN 1 ELSE 1 + CHOOSE i \in users : \A j \in users : j <= i
      map   == toolCallMap(SubSeq(log, from, Len(log)), EmptyMap)
      all   == [i \in 1..Len(map.order) |->
                  [id        |-> map.order[i],
                   started   |-> map.tab[map.order[i]].started,
                   completed |-> map.tab[map.order[i]].completed]]
      Started(tool) == tool.started.set
  IN  SelectSeq(all, Started)

\* Array.from(toolCallMap.entries()).map(([id, tool]) => ({id, ...tool}))
\*   .filter(tool => tool.started)
toolCalls(log) ==
  LET map == toolCallMap(log, EmptyMap)
      all == [i \in 1..Len(map.order) |->
                [id        |-> map.order[i],
                 started   |-> map.tab[map.order[i]].started,
                 completed |-> map.tab[map.order[i]].completed]]
      Started(tool) == tool.started.set
  IN  SelectSeq(all, Started)

\* const currentEvents = currentChatId ? getEvents(currentChatId) : []
currentEvents ==
  IF currentChatId # NoChat THEN getEvents(events, currentChatId) ELSE <<>>

\* ---------------------------------------------- the log that is rendered
\* The frames of the agent that the event processing tells apart: a tool call
\* started or completed, with its identifier in toolCall.id, in id, in the
\* shell command or nowhere, and a frame of another kind.
ToolIds == {"a", "b"}

toolFrame(sub, place, x) ==
  [json |-> TRUE,
   data |-> CASE place = "toolCall" ->
                   [type |-> "tool_call", subtype |-> sub, toolCall |-> [id |-> x]]
              [] place = "id" ->
                   [type |-> "tool_call", subtype |-> sub, id |-> x]
              [] place = "command" ->
                   [type |-> "tool_call", subtype |-> sub,
                    toolCall |-> [shellToolCall |-> [args |-> [command |-> x]]]]
              [] OTHER ->
                   [type |-> "tool_call", subtype |-> sub, toolCall |-> [result |-> x]]]

LogFrames ==
    {toolFrame(sub, place, x) : sub \in {"started", "completed"},
                                place \in {"toolCall", "id", "command"},
                                x \in ToolIds}
  \cup
    {toolFrame(sub, "none", "a") : sub \in {"started", "completed"}}
  \cup
    {[json |-> TRUE, data |-> [type |-> "assistant"]]}

\* onmessage appends the event of a frame to the log of the current session
logFrame(text) ==
  /\ currentChatId # NoChat
  /\ Len(currentEvents) < MaxLog
  /\ stores(currentChatId, text)
  /\ \E t \in Clock :
       /\ now' = t
       /\ events' = addEvent(events, currentChatId,
                             chatEvent(currentChatId, t, Random, text))
       /\ appended' = [appended EXCEPT ![currentChatId] =
                         Append(@, chatEvent(currentChatId, t, Random, text))]
  /\ UNCHANGED <<currentChatId, sessions>>
  /\ Persist
  /\ UNCHANGED storeOnly
  /\ UNCHANGED process

\* a session is current and its log is empty
RenderInit ==
  /\ currentChatId = 1
  /\ sessions = <<newSession(1, 0)>>
  /\ events = EmptyMap
  /\ storage = setItem(persisted(currentChatId, sessions, events))
  /\ ws = NoSocket
  /\ connected = FALSE
  /\ wsRef = NoSocket
  /\ sockets = <<>>
  /\ pending = NoRequests
  /\ now = 0
  /\ nextChat = 1
  /\ nFrames = 0
  /\ sent = <<>>
  /\ appended = [k \in 0..MaxChats |-> <<>>]
  /\ received = [k \in 0..MaxChats |-> <<>>]
  /\ createIssued = [o \in Origins |-> 0]
  /\ discarded = {}
  /\ freshStart = FALSE
  /\ process = NoProcess

RenderNext == \E text \in LogFrames : logFrame(text)

RenderSpec == RenderInit /\ [][RenderNext]_vars

\* ------------------------- App.tsx: the rest of the event processing
\* String.prototype.trim, on the prompts of the inputs: the blank prompt is
\* white space only
Blank == " "

trim(str) == IF str = Blank THEN "" ELSE str

\* emptyUserMessage without trim()
emptyUserMessageNoTrim(event) ==
  /\ event.type = "user"
  /\ ~Truthy(Get(event.payload, "prompt"))

\* event.type === 'user' && (!event.payload.prompt || event.payload.prompt.trim() === '')
emptyUserMessage(event) ==
  /\ event.type = "user"
  /\ (~Truthy(Get(event.payload, "prompt")) \/ trim(event.payload.prompt) = "")

\* displayed without the filter of thinking events
displayedWithThinking(event) ==
  /\ ~skipped(event)
  /\ event.type # "tool_call"
  /\ ~emptyUserMessage(event)

\* the events the loop pushes to filteredEvents
displayed(event) ==
  /\ ~skipped(event)
  /\ event.type # "tool_call"
  /\ ~emptyUserMessage(event)
  /\ event.type # "thinking"

filteredEvents(log) == SelectSeq(log, displayed)

\* x.length > 0 ? x[x.length - 1] : null
NoEvent == [set |-> FALSE]

lastOrNull(x) == IF Len(x) > 0 THEN Some(x[Len(x)]) ELSE NoEvent

resultEvents(log) ==
  LET IsResult(e) == e.type = "result" IN SelectSeq(filteredEvents(log), IsResult)

\* latestResult as the first of the result events
latestResultFirst(log) ==
  IF Len(resultEvents(log)) > 0 THEN Some(resultEvents(log)[1]) ELSE NoEvent

\* latestResult only while a result event is the last event of the log
latestResultIfNewest(log) ==
  IF Len(log) > 0 /\ log[Len(log)].type = "result"
    THEN lastOrNull(resultEvents(log))
    ELSE NoEvent

latestResult(log) == lastOrNull(resultEvents(log))

nonResultEvents(log) ==
  LET NotResult(e) == e.type # "result" IN SelectSeq(filteredEvents(log), NotResult)

thinkingEvents(log) ==
  LET Qualifies(e) == e.type = "thinking" /\ Get(e, "subtype") # "delta"
  IN  SelectSeq(log, Qualifies)

latestThinking(log) == lastOrNull(thinkingEvents(log))

latestNonThinkingEvent(log) == lastOrNull(nonResultEvents(log))

\* shouldShowThinking with >= in place of >
shouldShowThinkingOnTie(log) ==
  /\ latestThinking(log).set
  /\ (~latestNonThinkingEvent(log).set
        \/ latestThinking(log).event.timestamp
             >= latestNonThinkingEvent(log).event.timestamp)

\* latestThinking && (!latestNonThinkingEvent ||
\*   latestThinking.timestamp > latestNonThinkingEvent.timestamp)
shouldShowThinking(log) ==
  /\ latestThinking(log).set
  /\ (~latestNonThinkingEvent(log).set
        \/ latestThinking(log).event.timestamp
             > latestNonThinkingEvent(log).event.timestamp)

\* the tool call status
totalToolCalls(log) == Len(toolCalls(log))

completedToolCalls(log) ==
  LET Completed(tool) == tool.completed.set
  IN  Len(SelectSeq(toolCalls(log), Completed))

hasActiveToolCalls(log) ==
  totalToolCalls(log) > 0 /\ completedToolCalls(log) < totalToolCalls(log)

allToolCallsFinished(log) ==
  totalToolCalls(log) > 0 /\ completedToolCalls(log) = totalToolCalls(log)

shouldShowToolCallStatus(log) == hasActiveToolCalls(log) \/ allToolCallsFinished(log)

\* latestResult.subtype === 'success' || payload.exitCode === 0 || payload.is_error === false
isSuccess(result) ==
  \/ Get(result, "subtype") = "success"
  \/ ("exitCode" \in DOMAIN result.payload /\ result.payload.exitCode = 0)
  \/ ("is_error" \in DOMAIN result.payload /\ result.payload.is_error = FALSE)

\* the text shown for an assistant event: the text items of
\* payload.message.content, or payload.content, or payload.text
assistantText(event) ==
  IF "message" \in DOMAIN event.payload /\ "content" \in DOMAIN event.payload.message
    THEN LET content == event.payload.message.content
             IsText(item) == item.type = "text"
             items == SelectSeq(content, IsText)
         IN  [i \in 1..Len(items) |-> items[i].text]
  ELSE IF Truthy(Get(event.payload, "content")) THEN <<event.payload.content>>
  ELSE IF Truthy(Get(event.payload, "text")) THEN <<event.payload.text>>
  ELSE <<>>

\* what a message element shows
messageElement(event) ==
  [slot |-> "message",
   key  |-> event.id,
   kind |-> event.type,
   text |-> IF event.type = "user" THEN <<event.payload.prompt>>
            ELSE IF event.type = "assistant" THEN assistantText(event)
            ELSE <<>>]

\* the elements the render returns: the messages, the thinking indicator,
\* the tool call status, the latest result
elements(log) ==
  LET msgs == nonResultEvents(log)
  IN  [i \in 1..Len(msgs) |-> messageElement(msgs[i])]
      \o (IF shouldShowThinking(log)
            THEN <<[slot |-> "thinking", key |-> "thinking-indicator"]>>
            ELSE <<>>)
      \o (IF shouldShowToolCallStatus(log)
            THEN <<[slot |-> "tools", key |-> "tool-call-status",
                    total |-> totalToolCalls(log),
                    completed |-> completedToolCalls(log)]>>
            ELSE <<>>)
      \o (IF latestResult(log).set
            THEN <<[slot |-> "result", key |-> latestResult(log).event.id,
                    success |-> isSuccess(latestResult(log).event)]>>
            ELSE <<>>)

\* ------------------------------------------------ the view of a session
\* The frames the rest of the event processing tells apart.
thinkingFrame(sub) == [json |-> TRUE, data |-> [type |-> "thinking", subtype |-> sub]]

assistantFrame(text) ==
  [json |-> TRUE,
   data |-> [type |-> "assistant",
             message |-> [content |-> <<[type |-> "text", text |-> text]>>]]]

outcomeFrame(code) ==
  [json |-> TRUE,
   data |-> [type |-> "result", subtype |-> IF code = 0 THEN "success" ELSE "error",
             exitCode |-> code]]

ViewFrames ==
    {thinkingFrame(sub) : sub \in {"delta", "completed"}}
  \cup
    {assistantFrame("pong")}
  \cup
    {outcomeFrame(code) : code \in ExitCodes}
  \cup
    {toolFrame(sub, "toolCall", "a") : sub \in {"started", "completed"}}

Prompts == {"ping", Blank}

\* handleSend appends the user event of a prompt to the log of the current
\* session
logPrompt(prompt) ==
  /\ currentChatId # NoChat
  /\ Len(currentEvents) < MaxLog
  /\ \E t \in Clock :
       /\ now' = t
       /\ events' = addEvent(events, currentChatId,
                             userEvent(currentChatId, t, Random, prompt))
       /\ appended' = [appended EXCEPT ![currentChatId] =
                         Append(@, userEvent(currentChatId, t, Random, prompt))]
  /\ UNCHANGED <<currentChatId, sessions>>
  /\ Persist
  /\ UNCHANGED storeOnly
  /\ UNCHANGED process

ViewNext ==
  \/ \E text \in ViewFrames : logFrame(text)
  \/ \E prompt \in Prompts : logPrompt(prompt)

ViewSpec == RenderInit /\ [][ViewNext]_vars

\* ------------------------------------------------------------- one turn
\* The frames of one turn without tool calls: thinking, the answer, the
\* result of the agent's exit.
TurnFrames ==
  {thinkingFrame("delta"), thinkingFrame("completed"), assistantFrame("pong"),
   outcomeFrame(0)}

\* handleSend appends the user event of the prompt
turnSend(prompt) ==
  /\ currentChatId # NoChat
  /\ Len(currentEvents) < MaxTurn
  /\ \E t \in Clock :
       /\ now' = t
       /\ events' = addEvent(events, currentChatId,
                             userEvent(currentChatId, t, Random, prompt))
       /\ appended' = [appended EXCEPT ![currentChatId] =
                         Append(@, userEvent(currentChatId, t, Random, prompt))]
  /\ UNCHANGED <<currentChatId, sessions>>
  /\ Persist
  /\ UNCHANGED storeOnly
  /\ UNCHANGED process

\* onmessage appends the event of a frame of the turn
turnFrame(text) ==
  /\ currentChatId # NoChat
  /\ Len(currentEvents) < MaxTurn
  /\ stores(currentChatId, text)
  /\ \E t \in Clock :
       /\ now' = t
       /\ events' = addEvent(events, currentChatId,
                             chatEvent(currentChatId, t, Random, text))
       /\ appended' = [appended EXCEPT ![currentChatId] =
                         Append(@, chatEvent(currentChatId, t, Random, text))]
  /\ UNCHANGED <<currentChatId, sessions>>
  /\ Persist
  /\ UNCHANGED storeOnly
  /\ UNCHANGED process

TurnNext ==
  \/ turnSend("ping")
  \/ \E text \in TurnFrames : turnFrame(text)

TurnSpec == RenderInit /\ [][TurnNext]_vars

\* ------------------------------------------------------ the message list
\* The frames of the view, the system frames, an error frame, the wrapper of
\* a line that is not JSON, and a frame without a type.
systemFrame(sub) == [json |-> TRUE, data |-> [type |-> "system", subtype |-> sub]]

ListFrames ==
  ViewFrames
    \cup {systemFrame(sub) : sub \in {"init", "status"}}
    \cup {[json |-> TRUE, data |-> [type |-> "error", message |-> "oops"]],
          [json |-> TRUE, data |-> [type |-> "raw", data |-> "oops"]],
          [json |-> TRUE, data |-> [data |-> "oops"]]}

ListNext ==
  \/ \E text \in ListFrames : logFrame(text)
  \/ \E prompt \in Prompts : logPrompt(prompt)

ListSpec == RenderInit /\ [][ListNext]_vars

\* ---------------------------------------------------------- outcomes
\* The result lines an agent can print: each of subtype, exitCode and
\* is_error is present or absent, in every combination.
NoField == [f \in {} |-> f]

VerdictFields ==
  {sub @@ code @@ flag :
     sub  \in {NoField, [subtype |-> "success"], [subtype |-> "error"]},
     code \in {NoField} \cup {[exitCode |-> c] : c \in ExitCodes},
     flag \in {NoField} \cup {[is_error |-> b] : b \in BOOLEAN}}

verdictFrame(fields) == [json |-> TRUE, data |-> [type |-> "result"] @@ fields]

\* onmessage appends the event of a result frame
verdictArrives(text) ==
  /\ currentChatId # NoChat
  /\ Len(currentEvents) < MaxOutcomes
  /\ stores(currentChatId, text)
  /\ \E t \in Clock :
       /\ now' = t
       /\ events' = addEvent(events, currentChatId,
                             chatEvent(currentChatId, t, Random, text))
       /\ appended' = [appended EXCEPT ![currentChatId] =
                         Append(@, chatEvent(currentChatId, t, Random, text))]
  /\ UNCHANGED <<currentChatId, sessions>>
  /\ Persist
  /\ UNCHANGED storeOnly
  /\ UNCHANGED process

OutcomeNext == \E fields \in VerdictFields : verdictArrives(verdictFrame(fields))

OutcomeSpec == RenderInit /\ [][OutcomeNext]_vars

\* ------------------------------------------- server/src/index.ts: a turn
\* The agent's stdout is text over braces, spaces and newlines: the line {}
\* is the one JSON text, with or without spaces around and between the
\* braces.
Chars == {"{", "}", " ", "\n"}

\* data.toString().split('\n')
RECURSIVE split(_)
split(str) ==
  IF \A i \in 1..Len(str) : str[i] # "\n" THEN <<str>>
  ELSE LET k == CHOOSE i \in 1..Len(str) :
                  str[i] = "\n" /\ \A j \in 1..(i - 1) : str[j] # "\n"
       IN  <<SubSeq(str, 1, k - 1)>> \o split(SubSeq(str, k + 1, Len(str)))

\* line.trim() is the empty string
blank(line) == \A i \in 1..Len(line) : line[i] = " "

\* JSON.parse(line) does not throw
parses(line) ==
  LET Ink(c) == c # " " IN SelectSeq(line, Ink) = <<"{", "}">>

\* the frame sent for a line: the parsed event serialised again, or the
\* wrapper of the raw text
lineFrame(line) ==
  IF parses(line) THEN [json |-> TRUE, data |-> NoField]
  ELSE [json |-> TRUE, data |-> [type |-> "raw", data |-> line]]

RECURSIVE forwardLines(_)
forwardLines(lines) ==
  IF lines = <<>> THEN <<>>
  ELSE (IF blank(Head(lines)) THEN <<>> ELSE <<lineFrame(Head(lines))>>)
         \o forwardLines(Tail(lines))

\* process.stdout.on('data'): the frames sent for one chunk
forward(chunk) == forwardLines(split(chunk))

\* the variables of the client
clientVars == <<storeVars, reactVars, envVars, now, appended, received,
                createIssued, discarded, freshStart>>

\* the send frames a client can put on the channel: with or without a chat
\* identifier and a prompt
SendFrames == [chatId : {NoChat, 1}, prompt : {0, 1}]

\* ws.on('message'): an accepted frame spawns the agent
message(frame) ==
  /\ Len(sent) < MaxSends
  /\ process.state = "none"
  /\ sent' = Append(sent, frame)
  /\ process' = IF serverAccepts(frame)
                  THEN [process EXCEPT !.state = "running"]
                  ELSE process
  /\ UNCHANGED clientVars

\* the agent writes a character to its stdout
write(c) ==
  /\ process.state = "running"
  /\ Len(process.printed) < MaxChars
  /\ process' = [process EXCEPT !.printed = Append(@, c), !.pipe = Append(@, c)]
  /\ UNCHANGED <<clientVars, sent>>

\* the agent exits
exit(code) ==
  /\ process.state = "running"
  /\ process' = [process EXCEPT !.state = "exited", !.code = code]
  /\ UNCHANGED <<clientVars, sent>>

\* process.stdout.on('data'): the pipe hands over the first k characters
\* that wait in it
data(k) ==
  /\ process.state \in {"running", "exited"}
  /\ k \in 1..Len(process.pipe)
  /\ LET chunk == SubSeq(process.pipe, 1, k)
     IN  process' = [process EXCEPT
                       !.pipe = SubSeq(@, k + 1, Len(@)),
                       !.chunks = Append(@, chunk),
                       !.wire = @ \o forward(chunk)]
  /\ UNCHANGED <<clientVars, sent>>

\* the result frame sent at the exit of the process, before stdout is read
\* to its end
closeAtExit ==
  /\ process.state = "exited"
  /\ process' = [process EXCEPT !.state = IF process.pipe = <<>> THEN "closed" ELSE @,
                                !.wire = Append(@, outcomeFrame(process.code))]
  /\ UNCHANGED <<clientVars, sent>>

\* process.on('close'): the process has ended and its stdout is closed
close ==
  /\ process.state = "exited"
  /\ process.pipe = <<>>
  /\ process' = [process EXCEPT !.state = "closed",
                                !.wire = Append(@, outcomeFrame(process.code))]
  /\ UNCHANGED <<clientVars, sent>>

ServerNext ==
  \/ \E frame \in SendFrames : message(frame)
  \/ \E c \in Chars : write(c)
  \/ \E code \in ExitCodes : exit(code)
  \/ \E k \in 1..MaxChars : data(k)
  \/ close

ServerSpec == StoreInit /\ [][ServerNext]_vars

\* ================================================================ claims
EventFields == {"id", "chatId", "timestamp", "type", "subtype", "payload", "raw"}

\* two events read the same through every property of ChatEvent
SameEvent(a, b) == \A f \in EventFields : Get(a, f) = Get(b, f)

SameList(x, y) ==
  /\ Len(x) = Len(y)
  /\ \A i \in 1..Len(x) : SameEvent(x[i], y[i])

IsPrefixOf(x, y) ==
  /\ Len(x) <= Len(y)
  /\ \A i \in 1..Len(x) : SameEvent(x[i], y[i])

Keys == 0..MaxChats

\* C1: getEvents(s) is exactly the sequence of events appended for s, in the
\* order of the addEvent calls (nothing lost, duplicated, deleted or
\* reordered), and the log of s at any time is a prefix of its log at any
\* later time.
C1_LogIsTheAppendedSequence ==
  /\ [](\A k \in Keys : SameList(getEvents(events, k), appended[k]))
  /\ [][\A k \in Keys : IsPrefixOf(getEvents(events, k), getEvents(events', k))]_vars

\* two different events were appended to one session and read back
C1_Witness ==
  \E k \in ChatIds :
    /\ Len(appended[k]) >= 2
    /\ appended[k][1].id # appended[k][2].id
    /\ Len(getEvents(events, k)) >= 2

\* the events of a log that came from the channel, and their frame serials
FromChannel(e) == "n" \in DOMAIN e.payload

ChannelSerials(log) ==
  LET ch == SelectSeq(log, FromChannel)
  IN  [i \in 1..Len(ch) |-> ch[i].payload.n]

Range(q) == {q[i] : i \in 1..Len(q)}

UserEvents(log) == LET IsUser(e) == e.type = "user" IN SelectSeq(log, IsUser)

SentFor(k) == LET For(f) == f.chatId = k IN SelectSeq(sent, For)

\* C2: the frames of a session's channel that are stored are stored in the
\* order of their receipt: the stored channel events of a log, read in log
\* order, are the received frames they came from, read in order of receipt.
C2_StoredInOrderOfReceipt ==
  \A k \in ChatIds :
    LET stored == ChannelSerials(getEvents(events, k))
        Kept(text) == text.data.n \in Range(stored)
        kept == SelectSeq(received[k], Kept)
    IN  stored = [i \in 1..Len(kept) |-> kept[i].data.n]

\* two frames received on a session's channel are both in its log
C2_Witness ==
  \E k \in ChatIds : Len(ChannelSerials(getEvents(events, k))) >= 2

\* C3: while connected is false, no socket is held or currentChatId is null,
\* no step (a handleSend least of all) appends a user event to any log or
\* transmits a frame.
C3_RejectedSendIsNoOp ==
  [][~(connected /\ ws # NoSocket /\ currentChatId # NoChat) =>
       /\ sent' = sent
       /\ \A k \in Keys :
            UserEvents(getEvents(events', k)) = UserEvents(getEvents(events, k))]_vars

\* the channel is open and a socket is held but no session is bound, and the
\* user can still submit a prompt
C3_Witness ==
  /\ connected
  /\ ws # NoSocket
  /\ currentChatId = NoChat
  /\ Len(sent) < MaxSends

\* C4: in every log, an event produced by the collaborator for a turn comes
\* after the user event of that turn.
C4_UserEventPrecedesTurn ==
  \A k \in Keys :
    LET log == getEvents(events, k)
    IN  \A i \in 1..Len(log) :
          FromChannel(log[i]) =>
            \E j \in 1..(i - 1) :
              /\ log[j].type = "user"
              /\ ~FromChannel(log[j])
              /\ log[j].payload.prompt = log[i].payload.turn

\* a log holds the user event of a turn followed by an event of that turn
C4_Witness ==
  \E k \in ChatIds :
    LET log == getEvents(events, k)
    IN  /\ Len(log) >= 2
        /\ log[1].type = "user"
        /\ FromChannel(log[2])
        /\ log[2].payload.turn = log[1].payload.prompt

\* C5: the user events of a session's log are as many as the sends accepted
\* for that session; an echoed user event is not stored.
C5_EchoIsNotStored ==
  \A k \in Keys : Len(UserEvents(getEvents(events, k))) = Len(SentFor(k))

\* an echoed user event was delivered to onmessage of a bound session
C5_Witness ==
  \E k \in ChatIds : \E i \in 1..Len(received[k]) :
    /\ received[k][i].json
    /\ Get(received[k][i].data, "type") = "user"

\* C6: every event held under key k has chatId k, no event is held under two
\* keys, and a step that changes the current session changes no log; a
\* session that is new to the store starts with an empty log.
C6_EventsBelongToOneSession ==
  /\ [](\A k \in DOMAIN events.tab : \A i \in 1..Len(events.tab[k]) :
           /\ events.tab[k][i].chatId = k
           /\ \A k2 \in DOMAIN events.tab \ {k} : \A j \in 1..Len(events.tab[k2]) :
                events.tab[k2][j].id # events.tab[k][i].id)
  /\ [][currentChatId' # currentChatId =>
          /\ \A k \in Keys : getEvents(events', k) = getEvents(events, k)
          /\ (currentChatId' \notin SessionIds => getEvents(events', currentChatId') = <<>>)]_vars

\* the session was switched away from one that has a log, and the log of the
\* current session is empty
C6_Witness ==
  /\ currentChatId # NoChat
  /\ getEvents(events, currentChatId) = <<>>
  /\ \E k \in ChatIds \ {currentChatId} : Len(getEvents(events, k)) >= 2

\* C7: a frame taken from a socket that a later run of the effect has
\* superseded is appended to no log.
C7_LateFrameIsDiscarded ==
  [][\A s \in 1..(Len(sockets) - 1) :
       Len(sockets'[s].inbox) < Len(sockets[s].inbox) => events' = events]_vars

\* after a switch from session A to session B a frame of a stored kind
\* arrived on the socket opened for A and was dropped
C7_Witness ==
  \E d \in discarded :
    /\ d.s < Len(sockets)
    /\ sockets[d.s].chat \notin {NoChat, currentChatId}
    /\ currentChatId # NoChat
    /\ stores(sockets[d.s].chat, d.text)

\* C8: starting with nothing persisted, the startup call of createChat and
\* the channel's first open issue one create call between them, and without a
\* new-session request one session exists.
C8_NoSecondCreate ==
  freshStart =>
    /\ createIssued["init"] + createIssued["connected"] <= 1
    /\ (createIssued["new"] = 0 => Len(sessions) <= 1)

\* C9: a createChat call that has seen a teardown changes neither
\* currentChatId nor the session list when its response arrives.
C9_TornCreateDoesNotMutate ==
  [][(/\ Pending(pending) # {}
      /\ \A q \in Pending(pending) : q.torn
      /\ nextChat' = nextChat + 1) =>
       /\ currentChatId' = currentChatId
       /\ sessions' = sessions]_vars

\* C10: writing the persisted record with setItem and reading it with getItem
\* gives back an events map with the same keys in the same insertion order
\* and, per key, the same list of events.
C10_RoundTripIsLossless ==
  LET back == getItem(setItem(persisted(currentChatId, sessions, events))).state.events
  IN  /\ back.order = events.order
      /\ DOMAIN back.tab = DOMAIN events.tab
      /\ \A k \in DOMAIN events.tab : SameList(back.tab[k], events.tab[k])

\* a map of two sessions whose insertion order is not the order of the keys,
\* holding an event whose subtype was undefined, has been written and read back
C10_Witness ==
  /\ storage.item
  /\ Len(events.order) >= 2
  /\ events.order[1] > events.order[2]
  /\ \E k \in DOMAIN events.tab : \E i \in 1..Len(events.tab[k]) :
       /\ "subtype" \in DOMAIN appended[k][i]
       /\ appended[k][i].subtype = Undefined
       /\ "subtype" \notin DOMAIN events.tab[k][i]

\* two session lists read the same through every property of ChatSession
SessionFields == {"chatId", "createdAt", "lastMessageAt", "title"}

SameSessions(x, y) ==
  /\ Len(x) = Len(y)
  /\ \A i \in 1..Len(x) : \A f \in SessionFields : Get(x[i], f) = Get(y[i], f)

\* what a reload would hydrate the store with
Durable == getItem(storage).state

\* C11: after every store operation the durable record holds the state the
\* operation left: a reload restores currentChatId, the session list and the
\* event log of every session as they are now; while nothing was written yet
\* the store is in its initial state.
C11_RecordFollowsEveryMutation ==
  IF storage.item
    THEN /\ Durable.currentChatId = currentChatId
         /\ SameSessions(Durable.sessions, sessions)
         /\ Durable.events.order = events.order
         /\ \A k \in Keys : SameList(getEvents(Durable.events, k), getEvents(events, k))
    ELSE /\ currentChatId = NoChat
         /\ sessions = <<>>
         /\ events = EmptyMap

\* a session is current, a session is listed and a log of two events is held
\* after a reload has hydrated the store from the record
C11_Witness ==
  /\ storage.item
  /\ currentChatId # NoChat
  /\ sessions # <<>>
  /\ \E k \in ChatIds :
       /\ Len(getEvents(events, k)) >= 2
       /\ \E i \in 1..Len(events.tab[k]) :
            /\ "subtype" \in DOMAIN appended[k][i]
            /\ "subtype" \notin DOMAIN events.tab[k][i]

\* C12: when a current session identifier was persisted, neither the init
\* effect nor the connected effect calls createChat, and the identifier
\* changes only by a switch to a listed session or after a new-session
\* request; a step in which one of the two effects calls createChat starts
\* with no current session identifier.
C12_ResumesPersistedSession ==
  /\ [](~freshStart => createIssued["init"] + createIssued["connected"] = 0)
  /\ [][createIssued'["init"] + createIssued'["connected"]
          # createIssued["init"] + createIssued["connected"] =>
            currentChatId = NoChat]_vars
  /\ [][(~freshStart /\ currentChatId' # currentChatId) =>
          (currentChatId' \in SessionIds \/ createIssued["new"] > 0)]_vars

\* a session was persisted, the channel has opened and the connected frame
\* was handled, and the persisted session is still current
C12_Witness ==
  /\ ~freshStart
  /\ Len(sockets) = 1
  /\ sockets[1].state = "OPEN"
  /\ sockets[1].inbox = <<>>
  /\ connected
  /\ currentChatId = sockets[1].chat
  /\ currentChatId # NoChat
  /\ Calls(createIssued) = 0

\* the socket of the current binding, and the sockets constructed for the
\* binding after its first one: a change of binding changes the session, so
\* the binding's sockets are the last run of sockets of one session
Current == Len(sockets)

BindingStart ==
  CHOOSE b \in 1..Len(sockets) :
    /\ \A s \in b..Len(sockets) : sockets[s].chat = sockets[Len(sockets)].chat
    /\ (b > 1 => sockets[b - 1].chat # sockets[b].chat)

ReconnectAttempts == Len(sockets) - BindingStart

\* a step in which the open channel of the current binding is lost
AbnormalClose ==
  /\ sockets[Current].state = "OPEN"
  /\ sockets'[Current].state = "CLOSED"

\* C13: when the open channel is lost (an abnormal closure, no attempt made
\* so far for the binding), the channel re-enters Connecting: a socket for the
\* current session is being connected.
C13_AbnormalCloseReconnects ==
  [][AbnormalClose =>
       \E r \in 1..Len(sockets') :
         /\ sockets'[r].state = "CONNECTING"
         /\ sockets'[r].chat = currentChatId']_vars

\* C14: every abnormal closure of the binding's channel adds one to the
\* reconnection attempts made for the binding, and while the channel is open
\* the attempts count is zero.
C14_ClosureCountsAnAttempt ==
  /\ [](sockets[Current].state = "OPEN" => ReconnectAttempts = 0)
  /\ [][AbnormalClose => ReconnectAttempts' = ReconnectAttempts + 1]_vars

\* C15: a new connection is opened only by a step that binds another
\* session; the close event that ends a socket closed by the cleanup opens
\* none.
C15_IntentionalCloseDoesNotReconnect ==
  [][/\ (Len(sockets') > Len(sockets) => currentChatId' # currentChatId)
     /\ \A s \in 1..Len(sockets) :
          (sockets[s].state = "CLOSING" /\ sockets'[s].state = "CLOSED") =>
            Len(sockets') = Len(sockets)]_vars

\* a socket closed by the cleanup has received a frame after close() and has
\* then fired its close event
C15_Witness ==
  \E d \in discarded :
    /\ d.s < Len(sockets)
    /\ sockets[d.s].state = "CLOSED"

C17_SendOnlyOnOpenChannel ==
  \A i \in 1..Len(sent) : sent[i].state = "OPEN"

\* C18: when onmessage takes a frame that is not JSON from a socket opened
\* while a session was bound, the log of that session grows by one event,
\* whose raw text is the frame.
C18_UnparsedFrameIsAppended ==
  [][\A s \in 1..Len(sockets) :
       (/\ sockets[s].state = "OPEN"
        /\ sockets[s].chat # NoChat
        /\ sockets[s].inbox # <<>>
        /\ ~Head(sockets[s].inbox).json
        /\ Len(sockets') = Len(sockets)
        /\ sockets'[s].state = "OPEN"
        /\ sockets'[s].inbox = Tail(sockets[s].inbox)) =>
         LET before == getEvents(events, sockets[s].chat)
             after  == getEvents(events', sockets[s].chat)
         IN  /\ Len(after) = Len(before) + 1
             /\ after[Len(after)].raw = Head(sockets[s].inbox)]_vars

\* the tool_call events of a log that carry identifier x in toolCall.id
Carrying(log, sub, x) ==
  {i \in 1..Len(log) :
     /\ log[i].type = "tool_call"
     /\ Get(log[i], "subtype") = sub
     /\ toolCallId(log[i]) = x}

\* the tool_call events of a log that the loop files under identifier x
Keyed(log, sub, x) ==
  {i \in 1..Len(log) :
     /\ log[i].type = "tool_call"
     /\ Get(log[i], "subtype") = sub
     /\ toolId(log[i]) = textKey(x)}

Last(S) == CHOOSE i \in S : \A j \in S : j <= i

\* C20: when the log holds a started and a completed event of a tool call
\* with the same identifier, wherever they stand in the log, the tool calls
\* shown hold exactly one record with that identifier, and it holds the last
\* started and the last completed event filed under the identifier.
C20_PairMergesIntoOneRecord ==
  \A x \in ToolIds :
    LET log   == currentEvents
        tools == toolCalls(log)
        recs  == {r \in 1..Len(tools) : tools[r].id = textKey(x)}
    IN  (Carrying(log, "started", x) # {} /\ Carrying(log, "completed", x) # {}) =>
          /\ Cardinality(recs) = 1
          /\ \A r \in recs :
               /\ tools[r].started = Some(log[Last(Keyed(log, "started", x))])
               /\ tools[r].completed = Some(log[Last(Keyed(log, "completed", x))])

\* the started and the completed event of a tool call are separated by an
\* event of another tool call, and both tool calls are shown
C20_Witness ==
  LET log == currentEvents
  IN  \E x \in ToolIds : \E y \in ToolIds \ {x} :
        /\ Len(log) = 3
        /\ 1 \in Carrying(log, "started", x)
        /\ 2 \in Carrying(log, "started", y)
        /\ 3 \in Carrying(log, "completed", x)
        /\ Len(toolCalls(log)) = 2

\* ---------------------------------------------------------- the view
Slot(view, slot) == {i \in 1..Len(view) : view[i].slot = slot}

Thinking(log) == {i \in 1..Len(log) : log[i].type = "thinking" /\ Get(log[i], "subtype") # "delta"}

Results(log) == {i \in 1..Len(log) : log[i].type = "result"}

\* the events of the message list: user messages with a prompt, assistant
\* messages and the events of any other type that is not filtered
Messages(log) == {i \in 1..Len(log) : displayed(log[i]) /\ log[i].type # "result"}

C22_OnlyLatestOutcome ==
  LET log  == currentEvents
      view == elements(log)
  IN  /\ Cardinality(Slot(view, "result")) <= 1
      /\ \A i \in Slot(view, "result") :
           Results(log) # {} /\ view[i].key = log[Last(Results(log))].id
      /\ \A i \in Slot(view, "message") \cup Slot(view, "result") :
           \A r \in Results(log) : r # Last(Results(log)) => view[i].key # log[r].id
      /\ \A i \in Slot(view, "message") : view[i].kind # "result"

\* two result events with different outcomes are in the log and the later
\* one is shown
C22_Witness ==
  LET log  == currentEvents
      view == elements(log)
  IN  /\ Cardinality(Results(log)) >= 2
      /\ isSuccess(log[1]) # isSuccess(log[Last(Results(log))])
      /\ log[1].type = "result"
      /\ Slot(view, "result") # {}
      /\ Slot(view, "message") # {}

\* the log is the user event of ping followed by a thinking delta, a
\* thinking final, the assistant's pong and the result of exit code 0
PingPong(log) ==
  /\ Len(log) = 5
  /\ log[1].type = "user" /\ log[1].payload.prompt = "ping"
  /\ log[2].raw = thinkingFrame("delta")
  /\ log[3].raw = thinkingFrame("completed")
  /\ log[4].raw = assistantFrame("pong")
  /\ log[5].raw = outcomeFrame(0)

\* C23: when the log of the session is the user event of the prompt ping
\* followed, in order, by a thinking delta, a thinking final, an assistant
\* event with content pong and a result success with exit code 0, the view
\* is the user message ping, the assistant message pong and the outcome
\* success, and nothing else: no thinking indicator.
C23_PingPongView ==
  LET log  == currentEvents
      view == elements(log)
  IN  PingPong(log) =>
        /\ Len(view) = 3
        /\ view[1].slot = "message" /\ view[1].kind = "user"
        /\ view[1].text = <<"ping">> /\ view[1].key = log[1].id
        /\ view[2].slot = "message" /\ view[2].kind = "assistant"
        /\ view[2].text = <<"pong">> /\ view[2].key = log[4].id
        /\ view[3].slot = "result" /\ view[3].success /\ view[3].key = log[5].id
        /\ Slot(view, "thinking") = {}

\* the turn is in the log
C23_Witness == PingPong(currentEvents)

\* C24: no operation of the store (addSession, updateSession, addEvent,
\* createChat, switchChat, setCurrentChatId, nor a reload) removes a session
\* identifier from the session list.
C24_SessionIdsOnlyGrow == [][SessionIds \subseteq SessionIds']_vars

\* every session is in the list, the last one added after the first one was
\* updated, and events are stored
C24_Witness ==
  /\ Len(sessions) = MaxChats
  /\ sessions[1].lastMessageAt > sessions[1].createdAt
  /\ sessions[Len(sessions)].createdAt = sessions[1].lastMessageAt
  /\ \E chatId \in SessionIds : Len(getEvents(events, chatId)) > 0

\* C25: whenever a step appends an event to the log of a session, the
\* record of that session has, after the step, a lastMessageAt no earlier
\* than the timestamp of the appended event.
C25_AppendUpdatesLastMessageAt ==
  [][\A chat \in ChatIds :
       LET before == getEvents(events, chat)
           after  == getEvents(events', chat)
       IN  Len(after) > Len(before) =>
             \A i \in 1..Len(sessions') :
               sessions'[i].chatId = chat =>
                 sessions'[i].lastMessageAt >= after[Len(after)].timestamp]_vars

\* C26: after a session switch, once the socket of the new binding has
\* opened and is the held socket, the connection stays open and the held
\* socket stays that socket in every step in which the new socket itself
\* neither closes nor errors and no newer socket is created, whatever
\* callback of a superseded socket the step runs.
C26_StaleCallbacksIgnored ==
  [][(/\ Current > 1
      /\ ws = Current /\ connected
      /\ sockets[Current].state = "OPEN"
      /\ Len(sockets') = Len(sockets)
      /\ sockets'[Current].state = "OPEN")
       => (connected' /\ ws' = ws)]_vars

\* C27: a step that changes the current session identifier (the first
\* binding from none included) leaves the socket created last closing or
\* closed and creates exactly one socket, connecting for the new identifier,
\* and touches no other socket; a step that leaves the identifier as it is,
\* a call of setCurrentChatId with the current value included, creates no
\* socket.
C27_RebindingStartsOneConnection ==
  [][/\ currentChatId' # currentChatId =>
          /\ Len(sockets') = Len(sockets) + 1
          /\ sockets'[Len(sockets')] = newSocket(currentChatId')
          /\ sockets'[Current].state \in {"CLOSING", "CLOSED"}
          /\ \A s \in 1..(Current - 1) : sockets'[s] = sockets[s]
     /\ currentChatId' = currentChatId => Len(sockets') = Len(sockets)]_vars

\* a session was current, another session became current, and the socket
\* of the first is closing while the socket of the second connects
C27_Witness ==
  /\ Len(sockets) = 2
  /\ sockets[1].chat # NoChat
  /\ sockets[2].chat = currentChatId
  /\ sockets[2].chat # sockets[1].chat
  /\ sockets[1].state = "CLOSING"
  /\ sockets[2].state = "CONNECTING"

\* the position of the latest user message of the message list, 0 if none
TurnStart(log) ==
  LET users == {i \in Messages(log) : log[i].type = "user"}
  IN  IF users = {} THEN 0 ELSE Last(users)

\* the tool status shown: no element stands for no tool call
Status(log) ==
  LET view == elements(log)
  IN  IF Slot(view, "tools") = {}
        THEN [total |-> 0, completed |-> 0]
        ELSE LET e == view[Last(Slot(view, "tools"))]
             IN  [total |-> e.total, completed |-> e.completed]

\* the identifiers with an event of the subtype at a position of the set
Ids(log, sub, positions) == {x \in ToolIds : Keyed(log, sub, x) \cap positions # {}}

\* C28 as stated: the tool status counts the tool calls of the current turn
\* only; the total is the number of identifiers with a started event after
\* the latest user message, and the completed count the number of those with
\* a completed event after it (so a call started before the latest user
\* message is in neither count, and a started and a completed event of one
\* identifier after it give 1/1 with none in progress).
C28_ToolCountsScopedToTurn ==
  LET log  == currentEvents
      turn == (TurnStart(log) + 1)..Len(log)
  IN  /\ Status(log).total = Cardinality(Ids(log, "started", turn))
      /\ Status(log).completed
           = Cardinality(Ids(log, "started", turn) \cap Ids(log, "completed", turn))

\* C28 amended: the tool status counts the tool calls of the whole log of the
\* session; the total is the number of identifiers with a started event
\* anywhere in the log, before or after the latest user message, and the
\* completed count the number of those with a completed event anywhere.
C28_ToolCountsCoverTheLog ==
  LET log == currentEvents
      all == 1..Len(log)
  IN  /\ Status(log).total = Cardinality(Ids(log, "started", all))
      /\ Status(log).completed
           = Cardinality(Ids(log, "started", all) \cap Ids(log, "completed", all))

\* a tool call started, never completed, before the latest user message is
\* counted and in progress
C28_Witness ==
  LET log == currentEvents
  IN  /\ TurnStart(log) > 1
      /\ Ids(log, "started", 1..(TurnStart(log) - 1)) # {}
      /\ Ids(log, "started", (TurnStart(log) + 1)..Len(log)) = {}
      /\ Status(log) = [total |-> 1, completed |-> 0]

\* C29: whenever a message, a tool_call event or a result event stands in the
\* log after the latest thinking event that is not a delta, the thinking
\* indicator is not shown.
C29_IndicatorHiddenByNewerEvent ==
  LET log == currentEvents
  IN  (/\ Thinking(log) # {}
       /\ \E i \in (Last(Thinking(log)) + 1)..Len(log) :
            \/ i \in Messages(log)
            \/ log[i].type = "tool_call"
            \/ log[i].type = "result")
        => Slot(elements(log), "thinking") = {}

\* C30 as stated: when an event stands in the log after the most recent
\* result event, no outcome is shown.
C30_OutcomeOnlyWhileNewest ==
  LET log == currentEvents
  IN  (Results(log) # {} /\ Last(Results(log)) < Len(log))
        => Slot(elements(log), "result") = {}

\* C30 amended: the outcome of the most recent result event is shown whenever
\* the log holds a result event, also when other events were appended after
\* it.
C30_OutcomeStaysShown ==
  LET log  == currentEvents
      view == elements(log)
  IN  Results(log) # {} =>
        \E i \in Slot(view, "result") :
          /\ view[i].key = log[Last(Results(log))].id
          /\ view[i].success = isSuccess(log[Last(Results(log))])

\* the user message of the next turn follows the result event, and the
\* outcome is shown under it
C30_Witness ==
  LET log  == currentEvents
      view == elements(log)
  IN  /\ Results(log) # {}
      /\ Last(Results(log)) < Len(log)
      /\ Len(log) \in Messages(log)
      /\ log[Len(log)].type = "user"
      /\ Slot(view, "result") # {}

\* C31: the outcome shown is success exactly when the latest result event
\* has subtype success, or has no subtype error and carries exit code 0 or
\* is_error false; a result event with subtype error is shown as failure
\* whatever its exit code and flag.
C31_ErrorSubtypeIsFailure ==
  LET log  == currentEvents
      view == elements(log)
  IN  \A i \in Slot(view, "result") :
        LET r == log[Last(Results(log))].payload
        IN  view[i].success <=>
              \/ Get(r, "subtype") = "success"
              \/ /\ Get(r, "subtype") # "error"
                 /\ \/ ("exitCode" \in DOMAIN r /\ r.exitCode = 0)
                    \/ ("is_error" \in DOMAIN r /\ r.is_error = FALSE)

\* ------------------------------------------------------ tool records
\* a tool_call event with neither payload.toolCall.id nor payload.id
Anonymous(event) ==
  /\ event.type = "tool_call"
  /\ ~Truthy(toolCallId(event))
  /\ ~Truthy(Get(event.payload, "id"))

\* the events of the log are filed under different keys of toolCallMap
Separate(log, i, j) ==
  LET map == toolCallMap(log, EmptyMap)
  IN  /\ toolId(log[i]) # toolId(log[j])
      /\ MapHas(map, toolId(log[i]))
      /\ MapHas(map, toolId(log[j]))

\* C32 as stated: two tool_call events of a log that carry neither an
\* explicit call identifier nor a payload identifier get distinct tool
\* identifiers and are tracked as separate records.
C32_AnonymousCallsAreDistinct ==
  LET log == currentEvents
  IN  \A i \in 1..Len(log) : \A j \in (i + 1)..Len(log) :
        (Anonymous(log[i]) /\ Anonymous(log[j])) => Separate(log, i, j)

\* C32 amended: the shell command stands between the payload identifier and
\* the fallback. Two tool_call events that carry neither identifier and no
\* shell command get distinct tool identifiers and are tracked as separate
\* records; two that carry neither identifier and the same shell command get
\* the same tool identifier.
C32_CommandThenFallback ==
  LET log == currentEvents
  IN  \A i \in 1..Len(log) : \A j \in (i + 1)..Len(log) :
        (Anonymous(log[i]) /\ Anonymous(log[j])) =>
          IF ~Truthy(toolCallCommand(log[i])) /\ ~Truthy(toolCallCommand(log[j]))
            THEN Separate(log, i, j)
          ELSE (toolCallCommand(log[i]) = toolCallCommand(log[j]))
                 <=> (toolId(log[i]) = toolId(log[j]))

\* two started events without identifier and command arrive at the same
\* reading of the clock and are two tool calls
C32_Witness ==
  LET log == currentEvents
  IN  /\ Len(log) = 2
      /\ \A i \in 1..2 :
           /\ Anonymous(log[i]) /\ ~Truthy(toolCallCommand(log[i]))
           /\ Get(log[i], "subtype") = "started"
      /\ log[1].timestamp = log[2].timestamp
      /\ Len(toolCalls(log)) = 2

\* the tool_call events of a log filed under a key, by subtype
Filed(log, sub, key) ==
  {i \in 1..Len(log) :
     /\ log[i].type = "tool_call"
     /\ Get(log[i], "subtype") = sub
     /\ toolId(log[i]) = key}

Shown(log, key) == {r \in 1..Len(toolCalls(log)) : toolCalls(log)[r].id = key}

\* C33: in every log, a tool identifier that has a completed event is
\* completed in the view, whatever follows the completed event in the log, a
\* later started event with the same identifier included: its record, shown
\* when the identifier has a started event, holds a completed event.
C33_CompletedStaysCompleted ==
  LET log == currentEvents
  IN  \A i \in 1..Len(log) :
        (log[i].type = "tool_call" /\ Get(log[i], "subtype") = "completed") =>
          LET key == toolId(log[i])
          IN  /\ \A r \in Shown(log, key) : toolCalls(log)[r].completed.set
              /\ Filed(log, "started", key) # {} => Cardinality(Shown(log, key)) = 1

\* a tool call is started, completed and started again with the same
\* identifier, and is shown completed
C33_Witness ==
  LET log == currentEvents
  IN  \E x \in ToolIds :
        /\ Len(log) = 3
        /\ 1 \in Filed(log, "started", textKey(x))
        /\ 2 \in Filed(log, "completed", textKey(x))
        /\ 3 \in Filed(log, "started", textKey(x))
        /\ completedToolCalls(log) = 1
        /\ totalToolCalls(log) = 1

\* the events the filtering rules remove from the message list
Filtered(event) ==
  \/ event.type = "thinking"
  \/ event.type = "system" /\ Get(event, "subtype") = "init"
  \/ event.type = "tool_call"
  \/ event.type = "user" /\ event.payload.prompt \in {"", Blank}
  \/ event.type = "result"

Kept(log) == {i \in 1..Len(log) : ~Filtered(log[i])}

\* the i-th smallest element of a set of positions
Nth(S, i) == CHOOSE k \in S : Cardinality({j \in S : j <= k}) = i

\* C34: the message list is the log without the filtered events, in log
\* order: thinking events, system init events, tool_call events, user events
\* with an empty or blank prompt and result events are not in it, and every
\* other event, of a kind known or not, is in it exactly once.
C34_MessageListIsFilteredLog ==
  LET log  == currentEvents
      view == elements(log)
      msgs == Slot(view, "message")
  IN  /\ Cardinality(msgs) = Cardinality(Kept(log))
      /\ \A i \in 1..Cardinality(msgs) :
           /\ i \in msgs
           /\ view[i].key = log[Nth(Kept(log), i)].id
           /\ view[i].kind = log[Nth(Kept(log), i)].type

\* a blank prompt was sent, a frame without a type is in the log, and the
\* message list holds the latter only
C34_Witness ==
  LET log  == currentEvents
      view == elements(log)
  IN  /\ Len(log) = 3
      /\ \E i \in 1..3 : log[i].type = "user" /\ log[i].payload.prompt = Blank
      /\ \E i \in 1..3 : log[i].type = "unknown"
      /\ \E i \in 1..3 : Filtered(log[i]) /\ log[i].type # "user"
      /\ Cardinality(Slot(view, "message")) = 1
      /\ view[1].kind = "unknown"

\* ------------------------------------------------------------ server
\* the chunks delivered, put together
RECURSIVE Joined(_)
Joined(chunks) == IF chunks = <<>> THEN <<>> ELSE Head(chunks) \o Joined(Tail(chunks))

\* the frames sent for the chunks delivered
RECURSIVE Forwarded(_)
Forwarded(chunks) ==
  IF chunks = <<>> THEN <<>> ELSE forward(Head(chunks)) \o Forwarded(Tail(chunks))

\* C35: once the stdout of the agent is read to its end, the frames sent for
\* it are one frame for each line of the output that is not blank, in output
\* order (the parsed event for a JSON line, the raw wrapper otherwise),
\* however the output was split into chunks.
C35_OneFramePerLine ==
  (process.state = "exited" /\ process.pipe = <<>>) =>
     process.wire = forward(process.printed)

\* C36: when the process spawned for an accepted send frame has exited and
\* closed, the frames sent are those of the chunks of its stdout, all of it,
\* followed by one result frame that carries the exit code, with subtype
\* success when the code is 0 and error otherwise; and nothing is sent after
\* the result frame.
C36_ResultEndsTheTurn ==
  /\ process.state # "none" =>
       (sent # <<>> /\ sent[Len(sent)].chatId # NoChat /\ sent[Len(sent)].prompt # 0)
  /\ process.state = "closed" =>
       /\ Joined(process.chunks) = process.printed
       /\ process.wire
            = Forwarded(process.chunks)
                \o <<[json |-> TRUE,
                      data |-> [type |-> "result",
                                subtype |-> IF process.code = 0 THEN "success" ELSE "error",
                                exitCode |-> process.code]]>>

\* a rejected frame came first; the process printed, exited with a code that
\* is not 0 while output waited in the pipe, and closed after two chunks
C36_Witness ==
  /\ process.state = "closed"
  /\ process.code # 0
  /\ Len(sent) = 2
  /\ Len(process.chunks) = 2
  /\ Len(process.wire) = 3

\* ------------------------------------------------------------- store
\* C37: in every state of the store the session list holds at most one
\* record for a session identifier, after addSession with an identifier
\* that is in the list and after updateSession as after every other
\* operation.
C37_OneRecordPerSession ==
  \A i \in 1..Len(sessions) : \A j \in 1..Len(sessions) :
    sessions[i].chatId = sessions[j].chatId => i = j

\* the session with the smaller identifier stands last and is the younger:
\* it was added after the other one
C37_Witness ==
  /\ Len(sessions) = 2
  /\ sessions[1].chatId > sessions[2].chatId
  /\ sessions[2].createdAt > sessions[1].createdAt
  /\ sessions[1].lastMessageAt > sessions[1].createdAt

\* ------------------------------------------------------- tool counts
\* the tool identifiers of the tool_call events of a subtype
KeysOf(log, sub) ==
  {toolId(log[i]) : i \in {j \in 1..Len(log) :
                             log[j].type = "tool_call" /\ Get(log[j], "subtype") = sub}}

\* the counts of a log are those of its identifiers: total the identifiers
\* with a started event, completed those of them with a completed event too;
\* the panel is in the view exactly when total is at least 1
CountsOf(log) ==
  /\ totalToolCalls(log) = Cardinality(KeysOf(log, "started"))
  /\ completedToolCalls(log)
       = Cardinality(KeysOf(log, "started") \cap KeysOf(log, "completed"))
  /\ 0 <= completedToolCalls(log)
  /\ completedToolCalls(log) <= totalToolCalls(log)
  /\ (Slot(elements(log), "tools") # {}) <=> (totalToolCalls(log) >= 1)
  /\ Status(log) = [total |-> totalToolCalls(log), completed |-> completedToolCalls(log)]

\* C38: for every log, 0 <= completed <= total, where total is the number of
\* tool identifiers with a started event and completed the number of those
\* that have a completed event as well (an identifier with a completed event
\* only is in neither count); the status panel is shown exactly when total
\* is at least 1; and an event appended to the log decreases neither count.
C38_ToolCountsAreSound ==
  [][/\ CountsOf(currentEvents)
     /\ CountsOf(currentEvents')
     /\ totalToolCalls(currentEvents') >= totalToolCalls(currentEvents)
     /\ completedToolCalls(currentEvents') >= completedToolCalls(currentEvents)]_vars

\* one tool call is started and completed, another has a completed event
\* only: the panel shows 1 of 1
C38_Witness ==
  LET log == currentEvents
  IN  /\ Cardinality(KeysOf(log, "completed")) = 2
      /\ Cardinality(KeysOf(log, "started")) = 1
      /\ Status(log) = [total |-> 1, completed |-> 1]

\* ------------------------------------------------------ failed create
\* the number of createChat calls whose fetch has not settled
RECURSIVE Waiting(_, _)
Waiting(pend, qs) ==
  IF qs = {} THEN 0
  ELSE LET q == CHOOSE r \in qs : TRUE IN pend[q] + Waiting(pend, qs \ {q})

\* a step in which a createChat call settles without a new identifier: the
\* request failed or the response was not ok
CreateFails ==
  /\ Waiting(pending', Requests) < Waiting(pending, Requests)
  /\ nextChat' = nextChat

\* C39: a createChat call that fails adds no session record and changes
\* neither currentChatId nor any event log, nor the persisted record.
C39_FailedCreateLeavesStore ==
  [][CreateFails =>
       /\ sessions' = sessions
       /\ currentChatId' = currentChatId
       /\ events' = events
       /\ storage' = storage]_vars

\* a session is current and has events, New Session was asked for, and the
\* call has failed: nothing waits and no identifier was handed out for it
C39_Witness ==
  /\ ~freshStart
  /\ createIssued["new"] >= 1
  /\ Waiting(pending, Requests) = 0
  /\ nextChat = Len(sessions)
  /\ currentChatId # NoChat
  /\ Len(getEvents(events, currentChatId)) > 0

====
